---- MODULE Spec2Model ----
(***************************************************************************)
(* pyserver_tools: the group permission evaluator (permissions.py) and the *)
(* group provisioner (utils.py), over the authorization store of the host  *)
(* framework (the Group, Permission and User tables and their relations).  *)
(***************************************************************************)
EXTENDS Integers, Sequences, FiniteSets, TLC

VARIABLES
    groups,       \* Group table: the names of the groups that exist (name is unique)
    user_set,     \* Group.user_set: group name -> pks of the member users
    permissions,  \* Group.permissions: group name -> pks of the attached Permission rows
    registry,     \* Permission table: the pks of the Permission rows that exist
    view,         \* the view object: its permission_groups mapping and its action
    ret,          \* the evaluator call that returned last: arguments and outcome
    call,         \* the provisioner call of each caller: arguments, position, outcome
    flags,        \* User rows: is_active, is_staff and is_superuser of each user
    pred,         \* the simple predicate checked last: class, request and outcomes
    cmd           \* the create_pyserver_groups command: options, position, invocations

vars == <<groups, user_set, permissions, registry, view, ret, call, flags, pred, cmd>>

---------------------------------------------------------------------------
(* Bounds *)

\* longest list of required groups of one action in view.permission_groups
MaxRequired == 2
\* longest list of codenames handed to create_group
MaxPermissions == 3

BoundedSeq(S, n) == UNION {[1..k -> S] : k \in 0..n}

---------------------------------------------------------------------------
(* Python values *)

\* a scalar argument: its type and its repr
Py(t, v) == [type |-> t, val |-> v]
PyStr(s) == Py("str", s)
PyBool(b) == Py("bool", IF b THEN "True" ELSE "False")
\* a list, or something handed where a list is expected
PyList(s) == [type |-> "list", items |-> s]
PyNone == [type |-> "NoneType", items |-> <<>>]

isinstance(x, t) == x.type = t

\* truth value of a scalar, as `if x:` takes it
truthy(x) ==
    CASE x.type = "bool" -> x.val = "True"
      [] x.type = "int" -> x.val # "0"
      [] x.type = "str" -> x.val # ""
      [] OTHER -> FALSE

\* outcome of a call: a returned value, or the exception that left it
Returned(v) == [exc |-> "None", val |-> v]
Raised(e) == [exc |-> e, val |-> FALSE]

---------------------------------------------------------------------------
(* The authorization store *)

GroupNames == {"admins", "editors"}
\* the names of the Group table: those and the one InSuperserGroup looks up
GroupTable == GroupNames \cup {"superusers"}
Users == {"alice"}
AnonymousUser == "AnonymousUser"
\* request.user is a user object: a registered user or the AnonymousUser
RequestUsers == Users \cup {AnonymousUser}
\* request.user when the request carries no user object (None)
NoUser == "NoUser"
NoPk == "None"

\* user.pk: AnonymousUser.pk is None
pk(user) == IF user = AnonymousUser THEN NoPk ELSE user

\* Permission rows: codename is not unique in the table (it is unique per
\* content type only), so two rows may carry one codename.
PermissionRows == {1, 2, 3}
codename_of(p) == CASE p = 1 -> "add_entry" [] p = 2 -> "view_entry" [] OTHER -> "view_entry"
Codenames == {"add_entry", "view_entry", "delete_entry"}

---------------------------------------------------------------------------
(* permissions.py: the group permission evaluator *)

Public == "_Public"
None == "None"
ActionKeys == {"get", "post"}
Actions == ActionKeys \cup {None}
RequiredNames == GroupNames \cup {Public}

\* Group.objects.get(name=group_name)
Group_objects_get(group_name) ==
    IF group_name \in groups THEN Returned(TRUE) ELSE Raised("DoesNotExist")

is_in_group_uncaught(user, group_name) ==
    LET got == Group_objects_get(group_name)
    IN  IF got.exc # "None" THEN Raised(got.exc)
        ELSE IF user = NoUser THEN Raised("AttributeError")
        ELSE Returned(pk(user) \in user_set[group_name])

is_in_group(user, group_name) ==
    LET got == Group_objects_get(group_name)
    IN  IF got.exc = "DoesNotExist" THEN Returned(FALSE)
        ELSE IF user = NoUser THEN Raised("AttributeError")
        ELSE Returned(pk(user) \in user_set[group_name])

check_in_group(user, group_name) == is_in_group(user, group_name)

\* view.permission_groups.get(action)
dict_get(d, key) == IF key \in DOMAIN d THEN PyList(d[key]) ELSE PyNone

RECURSIVE all_in_group(_, _, _)
all_in_group(user, required, i) ==
    IF i > Len(required) THEN Returned(TRUE)
    ELSE LET r == check_in_group(user, required[i])
         IN  IF r.exc # "None" THEN r
             ELSE IF ~r.val THEN Returned(FALSE)
             ELSE all_in_group(user, required, i + 1)

\* any(check_in_group(user, g) for g in required_groups), from position i on:
\* the generator stops at the first True and an exception leaves it
RECURSIVE any_in_group(_, _, _)
any_in_group(user, required, i) ==
    IF i > Len(required) THEN Returned(FALSE)
    ELSE LET r == check_in_group(user, required[i])
         IN  IF r.exc # "None" THEN r
             ELSE IF r.val THEN Returned(TRUE)
             ELSE any_in_group(user, required, i + 1)

has_action_permission_open(user, v, action) ==
    LET required_groups == dict_get(v.permission_groups, action)
    IN  IF required_groups = PyNone THEN Returned(TRUE)
        ELSE IF \E i \in 1..Len(required_groups.items) : required_groups.items[i] = Public
            THEN Returned(TRUE)
        ELSE any_in_group(user, required_groups.items, 1)

has_action_permission_nopublic(user, v, action) ==
    LET required_groups == dict_get(v.permission_groups, action)
    IN  IF required_groups = PyNone THEN Returned(FALSE)
        ELSE any_in_group(user, required_groups.items, 1)

has_action_permission(user, v, action) ==
    LET required_groups == dict_get(v.permission_groups, action)
    IN  IF required_groups = PyNone THEN Returned(FALSE)
        ELSE IF \E i \in 1..Len(required_groups.items) : required_groups.items[i] = Public
            THEN Returned(TRUE)
        ELSE any_in_group(user, required_groups.items, 1)

has_permission(user, v) == has_action_permission(user, v, v.action)

---------------------------------------------------------------------------
(* State of the callers *)

Procs == {"p1", "p2"}

NoRet == [op |-> "none", user |-> AnonymousUser, action |-> None,
          group_name |-> "", out |-> Returned(FALSE)]

Snapshot == [groups |-> groups, user_set |-> user_set,
             permissions |-> permissions, registry |-> registry]

NoSnapshot == [groups |-> {}, user_set |-> [g \in GroupTable |-> {}],
               permissions |-> [g \in GroupTable |-> {}], registry |-> {}]

Idle == [op |-> "idle", pc |-> "idle", group_name |-> PyStr(""),
         permissions |-> PyList(<<>>), force |-> PyBool(FALSE),
         verbose |-> PyBool(FALSE), raise_exceptions |-> PyBool(TRUE),
         created |-> FALSE, i |-> 0, exc |-> "None", pre |-> NoSnapshot,
         again |-> FALSE, first |-> NoSnapshot]

\* a user as create_user makes it: active, neither staff nor superuser
NewUser == [is_active |-> TRUE, is_staff |-> FALSE, is_superuser |-> FALSE]

PredicateUsers == RequestUsers \cup {NoUser}
PredicateClasses ==
    {"IsAuthenticated", "IsAdminUser", "IsSuperUser", "InAdminGroup", "InSuperserGroup"}
Objects == {"obj1", "obj2"}

\* a value a predicate returns (None or a bool), or the exception that left it
PyNoneValue == Py("NoneType", "None")
PredReturned(v) == [exc |-> "None", val |-> v]
PredRaised(e) == [exc |-> e, val |-> PyNoneValue]

NoPred == [cls |-> "none", user |-> NoUser, obj |-> "obj1",
           has_permission |-> PredReturned(PyNoneValue),
           has_object_permission |-> PredReturned(PyNoneValue)]

\* the sibling applications, and the command before it is run
Apps == {"pyserver_users", "pyserver_cve_scraper"}
NoCommand == [pc |-> "idle", installed |-> {}, force |-> PyBool(FALSE),
              verbose |-> PyBool(TRUE), invoked |-> <<>>, stdout |-> <<>>,
              exc |-> "None"]

\* the mappings a view class may declare as permission_groups
PermissionGroupMaps ==
    UNION {[K -> BoundedSeq(RequiredNames, MaxRequired)] : K \in SUBSET ActionKeys}

---------------------------------------------------------------------------
(* The host's own writes to the store (tests/test_permissions.py, setUp) *)

\* Group.objects.create(name=...)
Group_objects_create(name) ==
    /\ \A p \in Procs : call[p].op = "idle"
    /\ name \notin groups
    /\ groups' = groups \cup {name}
    /\ ret' = NoRet
    /\ UNCHANGED <<user_set, permissions, registry, view, call>>
    /\ pred' = NoPred
    /\ UNCHANGED <<flags, cmd>>

\* user.groups.add(group)
user_groups_add(user, name) ==
    /\ \A p \in Procs : call[p].op = "idle"
    /\ name \in groups
    /\ pk(user) \notin user_set[name]
    /\ user_set' = [user_set EXCEPT ![name] = @ \cup {pk(user)}]
    /\ ret' = NoRet
    /\ UNCHANGED <<groups, permissions, registry, view, call>>
    /\ pred' = NoPred
    /\ UNCHANGED <<flags, cmd>>

\* view.action = ...
set_view_action(action) ==
    /\ view.action # action
    /\ view' = [view EXCEPT !.action = action]
    /\ ret' = NoRet
    /\ UNCHANGED <<groups, user_set, permissions, registry, call>>
    /\ UNCHANGED <<flags, pred, cmd>>

---------------------------------------------------------------------------
(* Calls of the evaluator *)

HasPermission(user) ==
    /\ ret' = [op |-> "has_permission", user |-> user, action |-> view.action,
               group_name |-> "", out |-> has_permission(user, view)]
    /\ UNCHANGED <<groups, user_set, permissions, registry, view, call>>
    /\ UNCHANGED <<flags, pred, cmd>>

HasActionPermission_get_or_create(user, action) ==
    /\ ret' = [op |-> "has_action_permission", user |-> user, action |-> action,
               group_name |-> "", out |-> has_action_permission(user, view, action)]
    /\ groups' = groups \cup
            (IF action \in DOMAIN view.permission_groups
             THEN {view.permission_groups[action][i] :
                        i \in 1..Len(view.permission_groups[action])} \cap GroupNames
             ELSE {})
    /\ UNCHANGED <<user_set, permissions, registry, view, call>>
    /\ UNCHANGED <<flags, pred, cmd>>

HasActionPermission(user, action) ==
    /\ ret' = [op |-> "has_action_permission", user |-> user, action |-> action,
               group_name |-> "", out |-> has_action_permission(user, view, action)]
    /\ UNCHANGED <<groups, user_set, permissions, registry, view, call>>
    /\ UNCHANGED <<flags, pred, cmd>>

IsInGroup(user, group_name) ==
    /\ ret' = [op |-> "is_in_group", user |-> user, action |-> None,
               group_name |-> group_name, out |-> is_in_group(user, group_name)]
    /\ UNCHANGED <<groups, user_set, permissions, registry, view, call>>
    /\ UNCHANGED <<flags, pred, cmd>>

InitEval ==
    /\ groups = {}
    /\ user_set = [g \in GroupTable |-> {}]
    /\ permissions = [g \in GroupTable |-> {}]
    /\ registry = {1, 2}
    /\ view \in [permission_groups : PermissionGroupMaps, action : {None}]
    /\ ret = NoRet
    /\ call = [p \in Procs |-> Idle]
    /\ flags = [u \in Users |-> NewUser]
    /\ pred = NoPred
    /\ cmd = NoCommand

NextEval ==
    \/ \E name \in GroupNames : Group_objects_create(name)
    \/ \E user \in Users, name \in GroupNames : user_groups_add(user, name)
    \/ \E action \in Actions : set_view_action(action)
    \/ \E user \in RequestUsers : HasPermission(user)
    \/ \E user \in RequestUsers, action \in Actions : HasActionPermission(user, action)
    \/ \E user \in RequestUsers, name \in GroupNames : IsInGroup(user, name)

SpecEval == InitEval /\ [][NextEval]_vars

---------------------------------------------------------------------------
(* permissions.py: the simple predicates *)

\* user.is_authenticated: True on a User, False on the AnonymousUser
is_authenticated(user) == user \in Users
\* user.is_active, user.is_staff, user.is_superuser: False on the AnonymousUser
is_active(user) == user \in Users /\ flags[user].is_active
is_staff(user) == user \in Users /\ flags[user].is_staff
user_is_superuser(user) == user \in Users /\ flags[user].is_superuser

\* the outcome of is_in_group, as a predicate hands it on
in_group(user, group_name) ==
    LET r == is_in_group(user, group_name)
    IN  IF r.exc # "None" THEN PredRaised(r.exc) ELSE PredReturned(PyBool(r.val))

\* request.user and request.user.is_authenticated and request.user.is_active
IsAuthenticated__has_permission(user) ==
    IF user = NoUser THEN PredReturned(PyNoneValue)
    ELSE IF ~is_authenticated(user) THEN PredReturned(PyBool(FALSE))
    ELSE PredReturned(PyBool(is_active(user)))

IsAuthenticated_has_permission(user, v) == IsAuthenticated__has_permission(user)
IsAuthenticated_has_object_permission(user, v, obj) == IsAuthenticated__has_permission(user)

IsAdminUser__has_permission_staff_only(user) ==
    IF user = NoUser THEN PredReturned(PyNoneValue)
    ELSE PredReturned(PyBool(is_staff(user)))

\* request.user and request.user.is_staff and request.user.is_active
IsAdminUser__has_permission(user) ==
    IF user = NoUser THEN PredReturned(PyNoneValue)
    ELSE IF ~is_staff(user) THEN PredReturned(PyBool(FALSE))
    ELSE PredReturned(PyBool(is_active(user)))

IsAdminUser_has_permission(user, v) == IsAdminUser__has_permission(user)
IsAdminUser_has_object_permission(user, v, obj) == IsAdminUser__has_permission(user)

\* user and user.is_superuser
is_superuser(user) ==
    IF user = NoUser THEN PredReturned(PyNoneValue)
    ELSE PredReturned(PyBool(user_is_superuser(user)))

IsSuperUser_has_permission(user, v) == is_superuser(user)
IsSuperUser_has_object_permission(user, v, obj) == is_superuser(user)

in_admin_group(user) == in_group(user, "admins")
InAdminGroup_has_permission(user, v) == in_admin_group(user)
InAdminGroup_has_object_permission(user, v, obj) == in_admin_group(user)

in_superuser_group(user) == in_group(user, "superusers")
InSuperserGroup_has_permission(user, v) == in_superuser_group(user)
InSuperserGroup_has_object_permission(user, v, obj) == in_superuser_group(user)

\* permission_class().has_permission(request, view)
class_has_permission(cls, user, v) ==
    CASE cls = "IsAuthenticated" -> IsAuthenticated_has_permission(user, v)
      [] cls = "IsAdminUser" -> IsAdminUser_has_permission(user, v)
      [] cls = "IsSuperUser" -> IsSuperUser_has_permission(user, v)
      [] cls = "InAdminGroup" -> InAdminGroup_has_permission(user, v)
      [] OTHER -> InSuperserGroup_has_permission(user, v)

\* permission_class().has_object_permission(request, view, obj)
class_has_object_permission(cls, user, v, obj) ==
    CASE cls = "IsAuthenticated" -> IsAuthenticated_has_object_permission(user, v, obj)
      [] cls = "IsAdminUser" -> IsAdminUser_has_object_permission(user, v, obj)
      [] cls = "IsSuperUser" -> IsSuperUser_has_object_permission(user, v, obj)
      [] cls = "InAdminGroup" -> InAdminGroup_has_object_permission(user, v, obj)
      [] OTHER -> InSuperserGroup_has_object_permission(user, v, obj)

\* the framework asks a predicate about a request, then about an object of it
CheckPredicate(cls, user, obj) ==
    /\ pred' = [cls |-> cls, user |-> user, obj |-> obj,
                has_permission |-> class_has_permission(cls, user, view),
                has_object_permission |-> class_has_object_permission(cls, user, view, obj)]
    /\ UNCHANGED <<groups, user_set, permissions, registry, view, ret, call>>
    /\ UNCHANGED <<flags, cmd>>

\* the host saves a user with other flags
User_save(user, f) ==
    /\ flags[user] # f
    /\ flags' = [flags EXCEPT ![user] = f]
    /\ pred' = NoPred
    /\ UNCHANGED <<groups, user_set, permissions, registry, view, ret, call>>
    /\ UNCHANGED cmd

UserFlags == [is_active : BOOLEAN, is_staff : BOOLEAN, is_superuser : BOOLEAN]
PredicateGroups == {"admins", "superusers"}

InitPred ==
    /\ groups = {}
    /\ user_set = [g \in GroupTable |-> {}]
    /\ permissions = [g \in GroupTable |-> {}]
    /\ registry = {1, 2}
    /\ view = [permission_groups |-> <<>>, action |-> None]
    /\ ret = NoRet
    /\ call = [p \in Procs |-> Idle]
    /\ flags = [u \in Users |-> NewUser]
    /\ pred = NoPred
    /\ cmd = NoCommand

NextPred ==
    \/ \E name \in PredicateGroups : Group_objects_create(name)
    \/ \E user \in Users, name \in PredicateGroups : user_groups_add(user, name)
    \/ \E user \in Users, f \in UserFlags : User_save(user, f)
    \/ \E cls \in PredicateClasses, user \in PredicateUsers, obj \in Objects :
            CheckPredicate(cls, user, obj)

SpecPred == InitPred /\ [][NextPred]_vars

---------------------------------------------------------------------------
(* utils.py: the group provisioner *)

\* Permission.objects.get(codename=codename): the row, or the exception
Permission_objects_get(codename) ==
    LET rows == {r \in registry : codename_of(r) = codename}
    IN  IF rows = {} THEN [exc |-> "DoesNotExist", row |-> 0]
        ELSE IF Cardinality(rows) > 1 THEN [exc |-> "MultipleObjectsReturned", row |-> 0]
        ELSE [exc |-> "None", row |-> CHOOSE r \in rows : TRUE]

\* the arguments a caller may hand over, of the declared type and of another
GroupNameArgs == {PyStr(n) : n \in GroupNames} \cup {Py("int", "7")}
PermissionsArgs ==
    {PyList(l) : l \in BoundedSeq(Codenames, MaxPermissions)}
        \cup {[type |-> "str", items |-> <<>>]}
FlagArgs == {PyBool(TRUE), PyBool(FALSE), Py("int", "1")}
\* force_recreate_group reads the truth value of a raise_exceptions of any type
RaiseArgs == FlagArgs \cup {Py("int", "0")}

\* create_group, lines 82-91: the first failed isinstance check raises TypeError
create_group_typecheck_noforce(group_name, perms, force, verbose, raise_exceptions) ==
    IF ~isinstance(group_name, "str") THEN "TypeError"
    ELSE IF ~isinstance(perms, "list") THEN "TypeError"
    ELSE IF ~isinstance(verbose, "bool") THEN "TypeError"
    ELSE IF ~isinstance(raise_exceptions, "bool") THEN "TypeError"
    ELSE "None"

create_group_typecheck(group_name, perms, force, verbose, raise_exceptions) ==
    IF ~isinstance(group_name, "str") THEN "TypeError"
    ELSE IF ~isinstance(perms, "list") THEN "TypeError"
    ELSE IF ~isinstance(force, "bool") THEN "TypeError"
    ELSE IF ~isinstance(verbose, "bool") THEN "TypeError"
    ELSE IF ~isinstance(raise_exceptions, "bool") THEN "TypeError"
    ELSE "None"

\* force_recreate_group, lines 30-41: a failed isinstance check raises TypeError
\* if raise_exceptions is true and returns otherwise
force_recreate_group_typecheck(group_name, verbose, raise_exceptions) ==
    IF ~isinstance(group_name, "str")
        THEN (IF truthy(raise_exceptions) THEN "TypeError" ELSE "return")
    ELSE IF ~isinstance(verbose, "bool")
        THEN (IF truthy(raise_exceptions) THEN "TypeError" ELSE "return")
    ELSE IF ~isinstance(raise_exceptions, "bool")
        THEN (IF truthy(raise_exceptions) THEN "TypeError" ELSE "return")
    ELSE "None"

\* the call ends: it returned (exc "None") or an exception left it
Done(c, exc) == [c EXCEPT !.pc = "done", !.exc = exc]

\* the loop over permissions goes on at position i, or is over
LoopAt(c, i) ==
    IF i > Len(c.permissions.items) THEN Done(c, "None")
    ELSE [c EXCEPT !.pc = "loop", !.i = i]

\* create_group is called: lines 82-91
Call_create_group(p, group_name, perms, force, verbose, raise_exceptions) ==
    /\ call[p].op = "idle"
    /\ LET c == [Idle EXCEPT !.op = "create_group", !.group_name = group_name,
                     !.permissions = perms, !.force = force, !.verbose = verbose,
                     !.raise_exceptions = raise_exceptions, !.pre = Snapshot]
           t == create_group_typecheck(group_name, perms, force, verbose, raise_exceptions)
       IN  call' = [call EXCEPT ![p] =
                IF t = "TypeError" THEN Done(c, "TypeError")
                ELSE [c EXCEPT !.pc = "get_or_create"]]
    /\ UNCHANGED <<groups, user_set, permissions, registry, view, ret>>
    /\ UNCHANGED <<flags, pred, cmd>>

\* line 94: group, created = Group.objects.get_or_create(name=group_name)
create_group_get_or_create(p) ==
    /\ call[p].op = "create_group"
    /\ call[p].pc = "get_or_create"
    /\ LET name == call[p].group_name.val
       IN  /\ groups' = groups \cup {name}
           /\ call' = [call EXCEPT ![p].created = name \notin groups,
                                   ![p].pc = "branch"]
    /\ UNCHANGED <<user_set, permissions, registry, view, ret>>
    /\ UNCHANGED <<flags, pred, cmd>>

create_group_branch_keeps(p) ==
    /\ call[p].op = "create_group"
    /\ call[p].pc = "branch"
    /\ LET c == call[p]
       IN  IF c.created \/ truthy(c.force)
           THEN /\ call' = [call EXCEPT ![p] = LoopAt(c, 1)]
                /\ UNCHANGED permissions
           ELSE /\ call' = [call EXCEPT ![p] =
                        IF truthy(c.raise_exceptions) THEN Done(c, "ValueError")
                        ELSE Done(c, "None")]
                /\ UNCHANGED permissions
    /\ UNCHANGED <<groups, user_set, registry, view, ret>>
    /\ UNCHANGED <<flags, pred, cmd>>

create_group_branch_clears_first(p) ==
    /\ call[p].op = "create_group"
    /\ call[p].pc = "branch"
    /\ LET c == call[p]
           name == c.group_name.val
       IN  IF c.created
           THEN /\ call' = [call EXCEPT ![p] = LoopAt(c, 1)]
                /\ UNCHANGED permissions
           ELSE /\ permissions' = [permissions EXCEPT ![name] = {}]
                /\ call' = [call EXCEPT ![p] =
                        IF truthy(c.force) THEN LoopAt(c, 1)
                        ELSE IF truthy(c.raise_exceptions) THEN Done(c, "ValueError")
                        ELSE Done(c, "None")]
    /\ UNCHANGED <<groups, user_set, registry, view, ret>>
    /\ UNCHANGED <<flags, pred, cmd>>

create_group_branch_no_return(p) ==
    /\ call[p].op = "create_group"
    /\ call[p].pc = "branch"
    /\ LET c == call[p]
           name == c.group_name.val
       IN  IF c.created
           THEN /\ call' = [call EXCEPT ![p] = LoopAt(c, 1)]
                /\ UNCHANGED permissions
           ELSE IF truthy(c.force)
           THEN /\ permissions' = [permissions EXCEPT ![name] = {}]
                /\ call' = [call EXCEPT ![p] = LoopAt(c, 1)]
           ELSE /\ call' = [call EXCEPT ![p] =
                        IF truthy(c.raise_exceptions) THEN Done(c, "ValueError")
                        ELSE LoopAt(c, 1)]
                /\ UNCHANGED permissions
    /\ UNCHANGED <<groups, user_set, registry, view, ret>>
    /\ UNCHANGED <<flags, pred, cmd>>

\* the branch, were force to clear the group and leave it at that
create_group_branch_clear_only(p) ==
    /\ call[p].op = "create_group"
    /\ call[p].pc = "branch"
    /\ LET c == call[p]
           name == c.group_name.val
       IN  IF c.created
           THEN /\ call' = [call EXCEPT ![p] = LoopAt(c, 1)]
                /\ UNCHANGED permissions
           ELSE IF truthy(c.force)
           THEN /\ permissions' = [permissions EXCEPT ![name] = {}]
                /\ call' = [call EXCEPT ![p] = Done(c, "None")]
           ELSE /\ call' = [call EXCEPT ![p] =
                        IF truthy(c.raise_exceptions) THEN Done(c, "ValueError")
                        ELSE Done(c, "None")]
                /\ UNCHANGED permissions
    /\ UNCHANGED <<groups, user_set, registry, view, ret>>
    /\ UNCHANGED <<flags, pred, cmd>>

\* lines 96-115: a created group goes on to the loop; an existing one is
\* cleared under force, and is a conflict otherwise
create_group_branch(p) ==
    /\ call[p].op = "create_group"
    /\ call[p].pc = "branch"
    /\ LET c == call[p]
           name == c.group_name.val
       IN  IF c.created
           THEN /\ call' = [call EXCEPT ![p] = LoopAt(c, 1)]
                /\ UNCHANGED permissions
           ELSE IF truthy(c.force)
           THEN /\ permissions' = [permissions EXCEPT ![name] = {}]
                /\ call' = [call EXCEPT ![p] = LoopAt(c, 1)]
           ELSE /\ call' = [call EXCEPT ![p] =
                        IF truthy(c.raise_exceptions) THEN Done(c, "ValueError")
                        ELSE Done(c, "None")]
                /\ UNCHANGED permissions
    /\ UNCHANGED <<groups, user_set, registry, view, ret>>
    /\ UNCHANGED <<flags, pred, cmd>>

create_group_loop_stops_at_first(p) ==
    /\ call[p].op = "create_group"
    /\ call[p].pc = "loop"
    /\ LET c == call[p]
           name == c.group_name.val
           got == Permission_objects_get(c.permissions.items[c.i])
       IN  IF got.exc = "DoesNotExist"
           THEN /\ call' = [call EXCEPT ![p] =
                        IF truthy(c.raise_exceptions) THEN Done(c, "ValueError")
                        ELSE LoopAt(c, c.i + 1)]
                /\ UNCHANGED permissions
           ELSE IF got.exc # "None"
           THEN /\ call' = [call EXCEPT ![p] = Done(c, got.exc)]
                /\ UNCHANGED permissions
           ELSE /\ permissions' = [permissions EXCEPT ![name] = @ \cup {got.row}]
                /\ call' = [call EXCEPT ![p] = Done(c, "None")]
    /\ UNCHANGED <<groups, user_set, registry, view, ret>>
    /\ UNCHANGED <<flags, pred, cmd>>

\* the loop, were the call one transaction: an unknown codename that raises
\* takes the group and its permissions back to what they were
create_group_loop_atomic(p) ==
    /\ call[p].op = "create_group"
    /\ call[p].pc = "loop"
    /\ LET c == call[p]
           name == c.group_name.val
           got == Permission_objects_get(c.permissions.items[c.i])
       IN  IF got.exc = "DoesNotExist"
           THEN IF truthy(c.raise_exceptions)
                THEN /\ call' = [call EXCEPT ![p] = Done(c, "ValueError")]
                     /\ permissions' = c.pre.permissions
                     /\ groups' = c.pre.groups
                ELSE /\ call' = [call EXCEPT ![p] = LoopAt(c, c.i + 1)]
                     /\ UNCHANGED <<permissions, groups>>
           ELSE IF got.exc # "None"
           THEN /\ call' = [call EXCEPT ![p] = Done(c, got.exc)]
                /\ UNCHANGED <<permissions, groups>>
           ELSE /\ permissions' = [permissions EXCEPT ![name] = @ \cup {got.row}]
                /\ call' = [call EXCEPT ![p] = LoopAt(c, c.i + 1)]
                /\ UNCHANGED groups
    /\ UNCHANGED <<user_set, registry, view, ret>>
    /\ UNCHANGED <<flags, pred, cmd>>

\* lines 118-132, one pass of the loop: the codename is looked up; a missing
\* one raises ValueError or is skipped, a found one is added to the group
create_group_loop(p) ==
    /\ call[p].op = "create_group"
    /\ call[p].pc = "loop"
    /\ LET c == call[p]
           name == c.group_name.val
           got == Permission_objects_get(c.permissions.items[c.i])
       IN  IF got.exc = "DoesNotExist"
           THEN /\ call' = [call EXCEPT ![p] =
                        IF truthy(c.raise_exceptions) THEN Done(c, "ValueError")
                        ELSE LoopAt(c, c.i + 1)]
                /\ UNCHANGED permissions
           ELSE IF got.exc # "None"
           THEN /\ call' = [call EXCEPT ![p] = Done(c, got.exc)]
                /\ UNCHANGED permissions
           ELSE /\ permissions' = [permissions EXCEPT ![name] = @ \cup {got.row}]
                /\ call' = [call EXCEPT ![p] = LoopAt(c, c.i + 1)]
    /\ UNCHANGED <<groups, user_set, registry, view, ret>>
    /\ UNCHANGED <<flags, pred, cmd>>

\* force_recreate_group is called: lines 30-41
Call_force_recreate_group(p, group_name, verbose, raise_exceptions) ==
    /\ call[p].op = "idle"
    /\ LET c == [Idle EXCEPT !.op = "force_recreate_group", !.group_name = group_name,
                     !.verbose = verbose, !.raise_exceptions = raise_exceptions,
                     !.pre = Snapshot]
           t == force_recreate_group_typecheck(group_name, verbose, raise_exceptions)
       IN  call' = [call EXCEPT ![p] =
                IF t = "TypeError" THEN Done(c, "TypeError")
                ELSE IF t = "return" THEN Done(c, "None")
                ELSE [c EXCEPT !.pc = "exists"]]
    /\ UNCHANGED <<groups, user_set, permissions, registry, view, ret>>
    /\ UNCHANGED <<flags, pred, cmd>>

\* lines 44-49: if not Group.objects.filter(name=group_name).exists()
force_recreate_group_exists(p) ==
    /\ call[p].op = "force_recreate_group"
    /\ call[p].pc = "exists"
    /\ LET c == call[p]
       IN  call' = [call EXCEPT ![p] =
                IF c.group_name.val \in groups THEN [c EXCEPT !.pc = "delete"]
                ELSE IF ~truthy(c.raise_exceptions) THEN Done(c, "None")
                ELSE Done(c, "ValueError")]
    /\ UNCHANGED <<groups, user_set, permissions, registry, view, ret>>
    /\ UNCHANGED <<flags, pred, cmd>>

force_recreate_group_delete_recreates(p) ==
    /\ call[p].op = "force_recreate_group"
    /\ call[p].pc = "delete"
    /\ LET c == call[p]
           name == c.group_name.val
           got == Group_objects_get(name)
       IN  IF got.exc # "None"
           THEN /\ call' = [call EXCEPT ![p] = Done(c, got.exc)]
                /\ UNCHANGED <<groups, user_set, permissions>>
           ELSE /\ groups' = groups
                /\ user_set' = [user_set EXCEPT ![name] = {}]
                /\ permissions' = [permissions EXCEPT ![name] = {}]
                /\ call' = [call EXCEPT ![p] = Done(c, "None")]
    /\ UNCHANGED <<registry, view, ret>>
    /\ UNCHANGED <<flags, pred, cmd>>

\* lines 52-53: Group.objects.get(name=group_name), group.delete(); the rows
\* of the group's relations go with it
force_recreate_group_delete(p) ==
    /\ call[p].op = "force_recreate_group"
    /\ call[p].pc = "delete"
    /\ LET c == call[p]
           name == c.group_name.val
           got == Group_objects_get(name)
       IN  IF got.exc # "None"
           THEN /\ call' = [call EXCEPT ![p] = Done(c, got.exc)]
                /\ UNCHANGED <<groups, user_set, permissions>>
           ELSE /\ groups' = groups \ {name}
                /\ user_set' = [user_set EXCEPT ![name] = {}]
                /\ permissions' = [permissions EXCEPT ![name] = {}]
                /\ call' = [call EXCEPT ![p] = Done(c, "None")]
    /\ UNCHANGED <<registry, view, ret>>
    /\ UNCHANGED <<flags, pred, cmd>>

\* the caller has the outcome and is free for its next call
Return(p) ==
    /\ call[p].pc = "done"
    /\ call' = [call EXCEPT ![p] = Idle]
    /\ UNCHANGED <<groups, user_set, permissions, registry, view, ret>>
    /\ UNCHANGED <<flags, pred, cmd>>

\* Permission.objects.create(codename=...) (tests/test_permissions.py, setUp)
Permission_objects_create(row) ==
    /\ row \notin registry
    /\ registry' = registry \cup {row}
    /\ ret' = NoRet
    /\ UNCHANGED <<groups, user_set, permissions, view, call>>
    /\ UNCHANGED <<flags, pred, cmd>>

AllIdle == \A p \in Procs : call[p].op = "idle"

\* one caller at a time, as a management command runs
SequentialProcs == {"p1"}

InitProv ==
    /\ groups = {}
    /\ user_set = [g \in GroupTable |-> {}]
    /\ permissions = [g \in GroupTable |-> {}]
    /\ registry = {1, 2}
    /\ view = [permission_groups |-> <<>>, action |-> None]
    /\ ret = NoRet
    /\ call = [p \in Procs |-> Idle]
    /\ flags = [u \in Users |-> NewUser]
    /\ pred = NoPred
    /\ cmd = NoCommand

NextProv ==
    \/ \E user \in Users, name \in GroupNames : user_groups_add(user, name)
    \/ AllIdle /\ \E row \in PermissionRows : Permission_objects_create(row)
    \/ AllIdle /\ \E p \in SequentialProcs, group_name \in GroupNameArgs,
                     perms \in PermissionsArgs, force \in FlagArgs,
                     verbose \in FlagArgs, raise_exceptions \in FlagArgs :
            Call_create_group(p, group_name, perms, force, verbose, raise_exceptions)
    \/ \E p \in SequentialProcs : create_group_get_or_create(p)
    \/ \E p \in SequentialProcs : create_group_branch(p)
    \/ \E p \in SequentialProcs : create_group_loop(p)
    \/ AllIdle /\ \E p \in SequentialProcs, group_name \in GroupNameArgs,
                     verbose \in FlagArgs, raise_exceptions \in RaiseArgs :
            Call_force_recreate_group(p, group_name, verbose, raise_exceptions)
    \/ \E p \in SequentialProcs : force_recreate_group_exists(p)
    \/ \E p \in SequentialProcs : force_recreate_group_delete(p)
    \/ \E p \in SequentialProcs : Return(p)

SpecProv == InitProv /\ [][NextProv]_vars

---------------------------------------------------------------------------
(* utils.py: two callers provision one group at the same time *)

\* longest permission list of a racing call
MaxRacePermissions == 2
\* the racing calls name the same group and list codenames that resolve
RaceGroupName == PyStr("admins")
RaceCodenames == {"add_entry", "view_entry"}
RacePermissionsArgs == {PyList(s) : s \in BoundedSeq(RaceCodenames, MaxRacePermissions)}

\* the store two racing calls may find: the group absent, or present with any
\* of the permissions an earlier create_group gave it
InitConc ==
    /\ groups \in {{}, {"admins"}}
    /\ user_set = [g \in GroupTable |-> {}]
    /\ permissions \in {f \in [GroupTable -> SUBSET {1, 2}] :
            \A g \in GroupTable : g \notin groups => f[g] = {}}
    /\ registry = {1, 2}
    /\ view = [permission_groups |-> <<>>, action |-> None]
    /\ ret = NoRet
    /\ call = [p \in Procs |-> Idle]
    /\ flags = [u \in Users |-> NewUser]
    /\ pred = NoPred
    /\ cmd = NoCommand

\* each caller calls create_group(name, perms, force=True) once; the steps of
\* the two calls interleave freely, nothing in create_group locks
NextConc ==
    \/ \E p \in Procs, perms \in RacePermissionsArgs :
            Call_create_group(p, RaceGroupName, perms, PyBool(TRUE), PyBool(FALSE),
                              PyBool(TRUE))
    \/ \E p \in Procs : create_group_get_or_create(p)
    \/ \E p \in Procs : create_group_branch(p)
    \/ \E p \in Procs : create_group_loop(p)

SpecConc == InitConc /\ [][NextConc]_vars

---------------------------------------------------------------------------
(* utils.py: a create_group call made twice in sequence *)

\* the caller makes the call it has just ended once more, with the same
\* arguments; the store as the first run left it is kept for comparison
Again(p) ==
    /\ call[p].op = "create_group"
    /\ call[p].pc = "done"
    /\ ~call[p].again
    /\ LET c == [call[p] EXCEPT !.again = TRUE, !.first = Snapshot, !.created = FALSE,
                                !.i = 0, !.exc = "None"]
           t == create_group_typecheck(c.group_name, c.permissions, c.force,
                                       c.verbose, c.raise_exceptions)
       IN  call' = [call EXCEPT ![p] =
                IF t = "TypeError" THEN Done(c, "TypeError")
                ELSE [c EXCEPT !.pc = "get_or_create"]]
    /\ UNCHANGED <<groups, user_set, permissions, registry, view, ret>>
    /\ UNCHANGED <<flags, pred, cmd>>

\* the arguments of the repeated calls: of the declared types
BoolArgs == {PyBool(TRUE), PyBool(FALSE)}
TwiceGroupNameArgs == {PyStr(n) : n \in GroupNames}
TwicePermissionsArgs == {PyList(s) : s \in BoundedSeq(Codenames, MaxPermissions)}

InitTwice ==
    /\ groups = {}
    /\ user_set = [g \in GroupTable |-> {}]
    /\ permissions = [g \in GroupTable |-> {}]
    /\ registry = {1, 2}
    /\ view = [permission_groups |-> <<>>, action |-> None]
    /\ ret = NoRet
    /\ call = [p \in Procs |-> Idle]
    /\ flags = [u \in Users |-> NewUser]
    /\ pred = NoPred
    /\ cmd = NoCommand

NextTwice ==
    \/ \E user \in Users, name \in GroupNames : user_groups_add(user, name)
    \/ AllIdle /\ \E row \in PermissionRows : Permission_objects_create(row)
    \/ AllIdle /\ \E p \in SequentialProcs, group_name \in TwiceGroupNameArgs,
                     perms \in TwicePermissionsArgs, force \in BoolArgs,
                     raise_exceptions \in BoolArgs :
            Call_create_group(p, group_name, perms, force, PyBool(FALSE), raise_exceptions)
    \/ \E p \in SequentialProcs : create_group_get_or_create(p)
    \/ \E p \in SequentialProcs : create_group_branch(p)
    \/ \E p \in SequentialProcs : create_group_loop(p)
    \/ \E p \in SequentialProcs : Again(p)
    \/ \E p \in SequentialProcs : Return(p)

SpecTwice == InitTwice /\ [][NextTwice]_vars

---------------------------------------------------------------------------
(* management/commands/create_pyserver_groups.py *)

\* the management command each sibling application provides
CommandOf(app) ==
    IF app = "pyserver_users" THEN "create_admin_group" ELSE "create_cve_scraper_groups"

\* what the application's routine writes when verbose
CreatingMessage(app) ==
    IF app = "pyserver_users" THEN "Creating the admin group"
    ELSE "Creating the scraping groups"

\* what handle writes when it skips the application
SkippingMessage(app) ==
    IF app = "pyserver_users" THEN "No pyserver_users app found. Skipping group creation."
    ELSE "No pyserver_cve_scraper app found. Skipping group creation."

\* the force arguments a routine passes on
force_argv(force) == IF truthy(force) THEN <<"--force", "True">> ELSE <<>>

\* how execute_from_command_line may leave: it returns, or the command it
\* loads fails to import something, or it exits
RoutineOutcomes == {"None", "ImportError", "SystemExit"}

stdout_write(c, verbose, msg) ==
    IF truthy(verbose) THEN [c EXCEPT !.stdout = Append(@, msg)] ELSE c

\* _run_pyserver_users_commands / _run_pyserver_cve_scraper_commands
run_commands(c, app) ==
    LET said == stdout_write(c, c.verbose, CreatingMessage(app))
    IN  [said EXCEPT !.invoked =
            Append(@, <<"manage.py", CommandOf(app)>> \o force_argv(c.force))]

\* one try block of handle, the except clause left out
handle_app_uncaught(c, app, next, out) ==
    IF app \notin c.installed
    THEN [c EXCEPT !.pc = "done", !.exc = "ImportError"]
    ELSE LET ran == run_commands(c, app)
         IN  IF out = "None" THEN [ran EXCEPT !.pc = next]
             ELSE [ran EXCEPT !.pc = "done", !.exc = out]

\* one try block of handle: import the application, run its routine, and
\* skip on ImportError
handle_app(c, app, next, out) ==
    IF app \notin c.installed
    THEN [stdout_write(c, c.verbose, SkippingMessage(app)) EXCEPT !.pc = next]
    ELSE LET ran == run_commands(c, app)
         IN  IF out = "None" THEN [ran EXCEPT !.pc = next]
             ELSE IF out = "ImportError"
             THEN [stdout_write(ran, c.verbose, SkippingMessage(app)) EXCEPT !.pc = next]
             ELSE [ran EXCEPT !.pc = "done", !.exc = out]

\* manage.py create_pyserver_groups [--force ...] [--verbose ...]
Call_handle(installed, force, verbose) ==
    /\ cmd.pc = "idle"
    /\ cmd' = [NoCommand EXCEPT !.pc = "pyserver_users", !.installed = installed,
                                !.force = force, !.verbose = verbose]
    /\ UNCHANGED <<groups, user_set, permissions, registry, view, ret, call>>
    /\ UNCHANGED <<flags, pred>>

handle_pyserver_users(out) ==
    /\ cmd.pc = "pyserver_users"
    /\ "pyserver_users" \notin cmd.installed => out = "None"
    /\ cmd' = handle_app(cmd, "pyserver_users", "pyserver_cve_scraper", out)
    /\ UNCHANGED <<groups, user_set, permissions, registry, view, ret, call>>
    /\ UNCHANGED <<flags, pred>>

handle_pyserver_cve_scraper(out) ==
    /\ cmd.pc = "pyserver_cve_scraper"
    /\ "pyserver_cve_scraper" \notin cmd.installed => out = "None"
    /\ cmd' = handle_app(cmd, "pyserver_cve_scraper", "done", out)
    /\ UNCHANGED <<groups, user_set, permissions, registry, view, ret, call>>
    /\ UNCHANGED <<flags, pred>>

\* the command is over; the next run starts afresh
Return_handle ==
    /\ cmd.pc = "done"
    /\ cmd' = NoCommand
    /\ UNCHANGED <<groups, user_set, permissions, registry, view, ret, call>>
    /\ UNCHANGED <<flags, pred>>

InitCmd ==
    /\ groups = {}
    /\ user_set = [g \in GroupTable |-> {}]
    /\ permissions = [g \in GroupTable |-> {}]
    /\ registry = {1, 2}
    /\ view = [permission_groups |-> <<>>, action |-> None]
    /\ ret = NoRet
    /\ call = [p \in Procs |-> Idle]
    /\ flags = [u \in Users |-> NewUser]
    /\ pred = NoPred
    /\ cmd = NoCommand

NextCmd ==
    \/ \E installed \in SUBSET Apps, force \in FlagArgs, verbose \in FlagArgs :
            Call_handle(installed, force, verbose)
    \/ \E out \in RoutineOutcomes : handle_pyserver_users(out)
    \/ \E out \in RoutineOutcomes : handle_pyserver_cve_scraper(out)
    \/ Return_handle

SpecCmd == InitCmd /\ [][NextCmd]_vars

---------------------------------------------------------------------------
(* Properties of the evaluator *)

Range(f) == {f[x] : x \in DOMAIN f}

IsEvaluation == ret.op \in {"has_permission", "has_action_permission"}

\* the list view.permission_groups holds for the action of the last evaluation
RequiredOfRet == view.permission_groups[ret.action]

\* the user is a member of a group that exists and is named in the list
MemberOfSome(user, required) ==
    \E i \in 1..Len(required) :
        required[i] \in groups /\ pk(user) \in user_set[required[i]]

\* C1: an action that is no key of view.permission_groups (None included) is
\* denied by has_action_permission and by has_permission, for every user and
\* whatever groups the user is a member of.
C1_UnknownActionDenied ==
    (IsEvaluation /\ ret.action \notin DOMAIN view.permission_groups)
        => ret.out = Returned(FALSE)

\* the action None is denied to a member of a group that another action requires
C1_Witness ==
    /\ ret.op = "has_permission"
    /\ ret.action = None
    /\ ret.user = "alice"
    /\ "get" \in DOMAIN view.permission_groups
    /\ MemberOfSome("alice", view.permission_groups["get"])
    /\ ret.out = Returned(FALSE)

\* C2: when "_Public" is among the groups required for the action, the action
\* is allowed to every user, member or not, anonymous or not, whatever else the
\* list names; and the sentinel listed for one action allows no other action:
\* an action whose own list lacks it is denied to a user in none of its groups.
C2_PublicAllows ==
    /\ (IsEvaluation /\ ret.action \in DOMAIN view.permission_groups
            /\ Public \in Range(RequiredOfRet))
        => ret.out = Returned(TRUE)
    /\ (IsEvaluation
            /\ (\E a \in DOMAIN view.permission_groups :
                    a # ret.action /\ Public \in Range(view.permission_groups[a]))
            /\ (ret.action \in DOMAIN view.permission_groups =>
                    /\ Public \notin Range(RequiredOfRet)
                    /\ ~MemberOfSome(ret.user, RequiredOfRet)))
        => ret.out = Returned(FALSE)

\* the anonymous user is allowed an action listing a missing group and the sentinel
C2_Witness ==
    /\ ret.op = "has_action_permission"
    /\ ret.user = AnonymousUser
    /\ ret.action = "get"
    /\ "get" \in DOMAIN view.permission_groups
    /\ view.permission_groups["get"] = <<"editors", Public>>
    /\ "editors" \notin groups
    /\ ret.out = Returned(TRUE)

\* C3: when the list required for the action does not hold the sentinel, the
\* action is allowed if and only if the user is a member of at least one
\* existing group the list names; an empty list denies.
C3_AnyRequiredGroup ==
    (IsEvaluation /\ ret.action \in DOMAIN view.permission_groups
        /\ Public \notin Range(RequiredOfRet))
        => ret.out = Returned(MemberOfSome(ret.user, RequiredOfRet))

\* a member of the second of two existing listed groups only is allowed
C3_Witness ==
    /\ ret.op = "has_action_permission"
    /\ ret.action = "post"
    /\ "post" \in DOMAIN view.permission_groups
    /\ view.permission_groups["post"] = <<"editors", "admins">>
    /\ groups = {"admins", "editors"}
    /\ pk(ret.user) \in user_set["admins"]
    /\ pk(ret.user) \notin user_set["editors"]
    /\ ret.out = Returned(TRUE)

\* C4: is_in_group, has_action_permission and has_permission end with a
\* boolean and never with an exception; a group name that is not in the store
\* counts as non-membership and an unknown action as deny.
C4_NeverRaises ==
    /\ ret.op # "none" => (ret.out.exc = "None" /\ ret.out.val \in BOOLEAN)
    /\ (ret.op = "is_in_group" /\ ret.group_name \notin groups)
        => ret.out = Returned(FALSE)
    /\ (IsEvaluation /\ ret.action \notin DOMAIN view.permission_groups)
        => ret.out = Returned(FALSE)

\* a missing group named first in the list does not end the evaluation: the
\* member of the existing group named after it is allowed
C4_Witness ==
    /\ ret.op = "has_action_permission"
    /\ ret.action = "get"
    /\ "get" \in DOMAIN view.permission_groups
    /\ view.permission_groups["get"] = <<"editors", "admins">>
    /\ "editors" \notin groups
    /\ "admins" \in groups
    /\ pk(ret.user) \in user_set["admins"]
    /\ ret.out = Returned(TRUE)

---------------------------------------------------------------------------
(* Properties of the provisioner *)

IsTrue(x) == x = PyBool(TRUE)
IsFalse(x) == x = PyBool(FALSE)

\* every argument of a create_group call is of its declared type
WellTyped(c) ==
    /\ c.group_name.type = "str"
    /\ c.permissions.type = "list"
    /\ c.force.type = "bool"
    /\ c.verbose.type = "bool"
    /\ c.raise_exceptions.type = "bool"

\* a create_group call with well-typed arguments has ended
CreateGroupDone(c) == c.op = "create_group" /\ c.pc = "done" /\ WellTyped(c)

RowsOf(reg, codename) == {r \in reg : codename_of(r) = codename}
\* the codename names one permission of the registry
Resolves(reg, codename) == Cardinality(RowsOf(reg, codename)) = 1
\* the codename names no permission of the registry
Unknown(reg, codename) == RowsOf(reg, codename) = {}

\* the permissions the resolving codenames of a list name
ResolvedRows(reg, items) ==
    UNION {RowsOf(reg, items[i]) : i \in {j \in 1..Len(items) : Resolves(reg, items[j])}}

AllResolve(reg, items) == \A i \in 1..Len(items) : Resolves(reg, items[i])

\* C5: create_group(name, perms, force=False) on a name with no group, every
\* codename of perms resolving: the group exists afterwards and its
\* permissions are exactly those perms names.
C5_FreshGroupExactPermissions ==
    \A p \in Procs :
        LET c == call[p]
            name == c.group_name.val
        IN  (CreateGroupDone(c) /\ IsFalse(c.force) /\ name \notin c.pre.groups
                /\ AllResolve(c.pre.registry, c.permissions.items))
            => /\ name \in groups
               /\ permissions[name] = ResolvedRows(c.pre.registry, c.permissions.items)

C5_Witness ==
    \E p \in Procs :
        /\ CreateGroupDone(call[p])
        /\ IsFalse(call[p].force)
        /\ call[p].group_name.val = "admins"
        /\ "admins" \notin call[p].pre.groups
        /\ call[p].permissions.items = <<"view_entry", "add_entry">>
        /\ permissions["admins"] = {1, 2}

\* C6: create_group with force=False and raise_exceptions=True on the name of
\* an existing group ends in ValueError and the group's permissions are what
\* they were before the call.
C6_ConflictRaisesAndKeeps ==
    \A p \in Procs :
        LET c == call[p]
            name == c.group_name.val
        IN  (CreateGroupDone(c) /\ IsFalse(c.force) /\ IsTrue(c.raise_exceptions)
                /\ name \in c.pre.groups)
            => /\ c.exc = "ValueError"
               /\ permissions[name] = c.pre.permissions[name]

C6_Witness ==
    \E p \in Procs :
        /\ CreateGroupDone(call[p])
        /\ IsFalse(call[p].force)
        /\ IsTrue(call[p].raise_exceptions)
        /\ call[p].group_name.val = "admins"
        /\ call[p].pre.permissions["admins"] = {1}
        /\ call[p].permissions.items = <<"view_entry">>
        /\ call[p].exc = "ValueError"
        /\ permissions["admins"] = {1}

\* C7: create_group with force=True on an existing group, every codename of
\* the list resolving: the group's permissions afterwards are exactly those
\* the list names, the former ones outside the list removed.
C7_ForceReplaces ==
    \A p \in Procs :
        LET c == call[p]
            name == c.group_name.val
        IN  (CreateGroupDone(c) /\ IsTrue(c.force) /\ name \in c.pre.groups
                /\ AllResolve(c.pre.registry, c.permissions.items))
            => permissions[name] = ResolvedRows(c.pre.registry, c.permissions.items)

C7_Witness ==
    \E p \in Procs :
        /\ CreateGroupDone(call[p])
        /\ IsTrue(call[p].force)
        /\ call[p].group_name.val = "admins"
        /\ call[p].pre.permissions["admins"] = {1}
        /\ call[p].permissions.items = <<"view_entry">>
        /\ permissions["admins"] = {2}

\* C8: create_group with force=False and raise_exceptions=False on the name of
\* an existing group returns without an exception and leaves the whole store
\* (groups, their permissions and members, the registry) as it was.
C8_ConflictNoOp ==
    \A p \in Procs :
        LET c == call[p]
        IN  (CreateGroupDone(c) /\ IsFalse(c.force) /\ IsFalse(c.raise_exceptions)
                /\ c.group_name.val \in c.pre.groups)
            => /\ c.exc = "None"
               /\ Snapshot = c.pre

C8_Witness ==
    \E p \in Procs :
        /\ CreateGroupDone(call[p])
        /\ IsFalse(call[p].force)
        /\ IsFalse(call[p].raise_exceptions)
        /\ call[p].group_name.val = "admins"
        /\ call[p].pre.permissions["admins"] = {1}
        /\ call[p].pre.user_set["admins"] = {"alice"}
        /\ "editors" \in call[p].pre.groups
        /\ call[p].permissions.items = <<"view_entry">>
        /\ call[p].exc = "None"

\* the loop over the list gets as far as position k: no codename before k is
\* carried by two permissions, nor (when unknown codenames raise) by none
LoopMeets(c, k) ==
    \A j \in 1..(k - 1) :
        IF IsTrue(c.raise_exceptions)
        THEN Resolves(c.pre.registry, c.permissions.items[j])
        ELSE Cardinality(RowsOf(c.pre.registry, c.permissions.items[j])) <= 1

\* the call attaches permissions (fresh group, or existing group under force)
\* and its loop meets a codename of no permission
MeetsUnknown(c) ==
    /\ CreateGroupDone(c)
    /\ c.group_name.val \notin c.pre.groups \/ IsTrue(c.force)
    /\ \E k \in 1..Len(c.permissions.items) :
            Unknown(c.pre.registry, c.permissions.items[k]) /\ LoopMeets(c, k)

\* C9: a create_group call that attaches permissions and meets a codename of
\* no permission ends in ValueError when raise_exceptions is True; when it is
\* False only that codename is skipped: the group holds the permission of
\* every resolvable codename of the list, before and after it, and no other.
C9_UnknownCodename ==
    \A p \in Procs :
        LET c == call[p]
            name == c.group_name.val
        IN  MeetsUnknown(c)
            => /\ IsTrue(c.raise_exceptions) => c.exc = "ValueError"
               /\ IsFalse(c.raise_exceptions) =>
                    permissions[name] = ResolvedRows(c.pre.registry, c.permissions.items)

\* C9 holds of the calls whose list names no codename carried by two
\* permissions: there the call with raise_exceptions False also returns.
C9_UnknownCodenameNoDuplicate ==
    \A p \in Procs :
        LET c == call[p]
            name == c.group_name.val
            items == c.permissions.items
        IN  (MeetsUnknown(c)
                /\ \A i \in 1..Len(items) :
                        Cardinality(RowsOf(c.pre.registry, items[i])) <= 1)
            => /\ IsTrue(c.raise_exceptions) => c.exc = "ValueError"
               /\ IsFalse(c.raise_exceptions) =>
                    /\ c.exc = "None"
                    /\ permissions[name] = ResolvedRows(c.pre.registry, items)

\* some argument of the call is not of its declared type
IllTyped(c) ==
    \/ c.group_name.type # "str"
    \/ c.verbose.type # "bool"
    \/ c.raise_exceptions.type # "bool"
    \/ c.op = "create_group" /\ (c.permissions.type # "list" \/ c.force.type # "bool")

ProvisionerDone(c) ==
    c.op \in {"create_group", "force_recreate_group"} /\ c.pc = "done"

\* C10 as stated: in create_group and in force_recreate_group an argument of
\* the wrong type ends the call in TypeError, whatever raise_exceptions is,
\* with the store as it was.
C10_TypeErrorAlways ==
    \A p \in Procs :
        LET c == call[p]
        IN  (ProvisionerDone(c) /\ IllTyped(c))
            => (c.exc = "TypeError" /\ Snapshot = c.pre)

\* C10 amended: an argument of the wrong type ends create_group in TypeError,
\* whatever raise_exceptions is; it ends force_recreate_group in TypeError when
\* raise_exceptions is true and in a plain return when it is not; in both the
\* store is as it was.
C10_TypeErrors ==
    \A p \in Procs :
        LET c == call[p]
        IN  (ProvisionerDone(c) /\ IllTyped(c))
            => /\ Snapshot = c.pre
               /\ c.op = "create_group" => c.exc = "TypeError"
               /\ c.op = "force_recreate_group" =>
                    c.exc = (IF truthy(c.raise_exceptions) THEN "TypeError" ELSE "None")

\* force_recreate_group with raise_exceptions=False and a verbose that is no
\* bool, on the name of an existing group: a plain return, the group still there
C10_Witness ==
    \E p \in Procs :
        /\ call[p].op = "force_recreate_group"
        /\ call[p].pc = "done"
        /\ call[p].group_name = PyStr("admins")
        /\ call[p].verbose.type # "bool"
        /\ IsFalse(call[p].raise_exceptions)
        /\ call[p].exc = "None"
        /\ "admins" \in groups
        /\ permissions["admins"] = {1, 2}

\* a force_recreate_group call with well-typed arguments has ended
ForceRecreateDone(c) ==
    /\ c.op = "force_recreate_group"
    /\ c.pc = "done"
    /\ c.group_name.type = "str"
    /\ c.verbose.type = "bool"
    /\ c.raise_exceptions.type = "bool"

C12_EvaluatorReadsOnly ==
    [][(ret' # ret /\ ret'.op # "none")
        => UNCHANGED <<groups, user_set, permissions, registry, view>>]_vars

\* a deny over a list naming a missing group has returned and the group is
\* still missing, the other group and its member still there
C12_Witness ==
    /\ ret.op = "has_action_permission"
    /\ ret.action = "get"
    /\ ret.user = "alice"
    /\ "get" \in DOMAIN view.permission_groups
    /\ view.permission_groups["get"] = <<"admins">>
    /\ groups = {"editors"}
    /\ user_set["editors"] = {"alice"}
    /\ ret.out = Returned(FALSE)

\* the first unknown codename of the call's list stands at position k, after
\* k - 1 codenames that each name one permission
FailsAfterPrefix(c, k) ==
    /\ k \in 2..Len(c.permissions.items)
    /\ Unknown(c.pre.registry, c.permissions.items[k])
    /\ \A j \in 1..(k - 1) : Resolves(c.pre.registry, c.permissions.items[j])

\* C15: create_group is not atomic. A call with raise_exceptions=True that
\* attaches permissions (fresh name, or existing group under force) and meets
\* an unknown codename after resolvable ones ends in ValueError, and the store
\* keeps what was done before: the group exists (created, on a fresh name) and
\* holds exactly the permissions of the codenames before the unknown one.
C15_NotAtomic ==
    \A p \in Procs :
        LET c == call[p]
            name == c.group_name.val
        IN  \A k \in 1..MaxPermissions + 1 :
                (CreateGroupDone(c) /\ IsTrue(c.raise_exceptions)
                    /\ (name \notin c.pre.groups \/ IsTrue(c.force))
                    /\ FailsAfterPrefix(c, k))
                => /\ c.exc = "ValueError"
                   /\ groups = c.pre.groups \cup {name}
                   /\ permissions[name] =
                        ResolvedRows(c.pre.registry, SubSeq(c.permissions.items, 1, k - 1))
                   /\ permissions[name] # {}

\* a fresh group left with one of the two listed permissions after ValueError
C15_Witness ==
    \E p \in Procs :
        /\ CreateGroupDone(call[p])
        /\ IsTrue(call[p].raise_exceptions)
        /\ call[p].group_name.val = "admins"
        /\ "admins" \notin call[p].pre.groups
        /\ call[p].permissions.items = <<"add_entry", "delete_entry">>
        /\ call[p].exc = "ValueError"
        /\ "admins" \in groups
        /\ permissions["admins"] = {1}

\* C18: a create_group call with well-typed arguments and
\* raise_exceptions=False returns normally, whatever the store and the list
\* hold: an existing group without force, a codename of no permission and a
\* codename carried by more than one permission all end in a skip or no-op.
C18_NeverRaises ==
    \A p \in Procs :
        LET c == call[p]
        IN  (CreateGroupDone(c) /\ IsFalse(c.raise_exceptions)) => c.exc = "None"

\* the same, as far as the code keeps it: the call returns normally unless the
\* loop comes to a codename carried by more than one permission
C18_NeverRaisesNoDuplicate ==
    \A p \in Procs :
        LET c == call[p]
        IN  (CreateGroupDone(c) /\ IsFalse(c.raise_exceptions))
            => \/ c.exc = "None"
               \/ /\ c.exc = "MultipleObjectsReturned"
                  /\ c.group_name.val \notin c.pre.groups \/ IsTrue(c.force)
                  /\ \E k \in 1..Len(c.permissions.items) :
                        Cardinality(RowsOf(c.pre.registry, c.permissions.items[k])) > 1

\* both callers have ended a create_group(force=True) call on one group name
BothDone ==
    /\ \A p \in Procs : CreateGroupDone(call[p]) /\ IsTrue(call[p].force)
    /\ call["p1"].group_name = call["p2"].group_name

\* the permission set a call's list names
ListRows(c) == ResolvedRows(c.pre.registry, c.permissions.items)

\* C16: two create_group(force=True) calls on one group name are not
\* serialized. Whatever the interleaving, when both have ended the group holds
\* only permissions that one of the lists names and all of those that the list
\* of one of the calls names; nothing more is kept, so the set may equal
\* neither list's (C16_Witness).
C16_RaceOutcomes ==
    (BothDone /\ AllResolve(registry, call["p1"].permissions.items)
              /\ AllResolve(registry, call["p2"].permissions.items))
    => LET name == call["p1"].group_name.val
           P1 == ListRows(call["p1"])
           P2 == ListRows(call["p2"])
       IN  /\ \A p \in Procs : call[p].exc = "None"
           /\ permissions[name] \subseteq P1 \cup P2
           /\ P1 \subseteq permissions[name] \/ P2 \subseteq permissions[name]

\* both calls have returned, one listing add_entry and one view_entry, and the
\* group holds both permissions: the set of neither list
C16_Witness ==
    /\ BothDone
    /\ call["p1"].permissions.items = <<"add_entry">>
    /\ call["p2"].permissions.items = <<"view_entry">>
    /\ call["p1"].exc = "None"
    /\ call["p2"].exc = "None"
    /\ permissions["admins"] = {1, 2}
    /\ permissions["admins"] # ListRows(call["p1"])
    /\ permissions["admins"] # ListRows(call["p2"])

\* the members of every group and what the groups other than `name` are and
\* hold are the same in the store as in the snapshot
SameButPermissionsOf(name, snap) ==
    /\ groups \ {name} = snap.groups \ {name}
    /\ user_set = snap.user_set
    /\ \A g \in GroupTable \ {name} : permissions[g] = snap.permissions[g]
    /\ registry = snap.registry

\* C17: create_group(name, perms, force=True, raise_exceptions=False) is
\* idempotent: after the second of two runs in sequence the group holds the
\* permission set the first run left, and after either run every group's
\* members and every other group are as they were before the first.
C17_ForceIdempotent ==
    \A p \in Procs :
        LET c == call[p]
            name == c.group_name.val
        IN  (CreateGroupDone(c) /\ IsTrue(c.force) /\ IsFalse(c.raise_exceptions))
            => /\ SameButPermissionsOf(name, c.pre)
               /\ name \in groups
               /\ c.again =>
                    /\ permissions[name] = c.first.permissions[name]
                    /\ groups = c.first.groups
                    /\ c.first.user_set = c.pre.user_set
                    /\ \A g \in GroupTable \ {name} :
                            c.first.permissions[g] = c.pre.permissions[g]

\* the second run has ended on a group that held view_entry before the first:
\* it holds add_entry alone, as after the first run; alice is still a member
C17_Witness ==
    \E p \in Procs :
        /\ CreateGroupDone(call[p])
        /\ call[p].again
        /\ IsTrue(call[p].force)
        /\ IsFalse(call[p].raise_exceptions)
        /\ call[p].group_name.val = "admins"
        /\ call[p].permissions.items = <<"add_entry", "delete_entry">>
        /\ call[p].pre.permissions["admins"] = {2}
        /\ call[p].first.permissions["admins"] = {1}
        /\ permissions["admins"] = {1}
        /\ user_set["admins"] = {"alice"}

---------------------------------------------------------------------------
(* Properties of the simple predicates *)

\* a predicate allows when it returns a true value
Allows(out) == out.exc = "None" /\ truthy(out.val)

\* the condition under which each simple predicate is to allow
SimpleCondition(cls, user) ==
    CASE cls = "IsAuthenticated" ->
            user # NoUser /\ is_authenticated(user) /\ is_active(user)
      [] cls = "IsAdminUser" -> user # NoUser /\ is_staff(user) /\ is_active(user)
      [] cls = "IsSuperUser" -> user # NoUser /\ user_is_superuser(user)
      [] cls = "InAdminGroup" -> "admins" \in groups /\ user \in user_set["admins"]
      [] OTHER -> "superusers" \in groups /\ user \in user_set["superusers"]

\* C13: each simple predicate gives the same result for the request and for
\* an object of it, and allows exactly when its condition holds: the user is
\* non-null, authenticated and active (IsAuthenticated); non-null, staff and
\* active (IsAdminUser); non-null and superuser (IsSuperUser); a member of
\* "admins" (InAdminGroup); a member of "superusers" (InSuperserGroup).
C13_SimplePredicates ==
    pred.cls # "none" =>
        /\ Allows(pred.has_permission) <=> Allows(pred.has_object_permission)
        /\ Allows(pred.has_permission) <=> SimpleCondition(pred.cls, pred.user)
        /\ Allows(pred.has_object_permission) <=> SimpleCondition(pred.cls, pred.user)

\* a staff user that is not active asks IsAdminUser and is denied
C13_Witness ==
    /\ pred.cls = "IsAdminUser"
    /\ pred.user = "alice"
    /\ flags["alice"].is_staff
    /\ ~flags["alice"].is_active
    /\ ~Allows(pred.has_permission)
    /\ ~Allows(pred.has_object_permission)

---------------------------------------------------------------------------
(* Properties of the create_pyserver_groups command *)

\* the invocations of the application's command, by position
InvocationsOf(app) ==
    {i \in 1..Len(cmd.invoked) : cmd.invoked[i][2] = CommandOf(app)}

\* the command line the application's routine is to hand on
ExpectedArgv(app) ==
    <<"manage.py", CommandOf(app)>> \o
        (IF IsTrue(cmd.force) \/ cmd.force = Py("int", "1")
         THEN <<"--force", "True">> ELSE <<>>)

\* handle got as far as the application's try block
HandleReached(app) ==
    \/ cmd.pc = "done" /\ (app = "pyserver_users" \/ cmd.exc = "None")
    \/ cmd.pc = "done" /\ InvocationsOf(app) # {}
    \/ cmd.pc = "pyserver_cve_scraper" /\ app = "pyserver_users"

\* C14: an application that cannot be imported is skipped: handle does not
\* fail over it, never invokes its routine, and goes on to the other
\* application; the routine of a present application is invoked once, with
\* --force forwarded exactly when the command was run with force set.
C14_AbsentAppSkipped ==
    /\ \A app \in Apps \ cmd.installed : InvocationsOf(app) = {}
    /\ cmd.exc # "None" =>
            /\ cmd.exc # "ImportError"
            /\ Len(cmd.invoked) > 0
            /\ \E app \in cmd.installed :
                    cmd.invoked[Len(cmd.invoked)][2] = CommandOf(app)
    /\ ("pyserver_users" \notin cmd.installed /\ cmd.pc = "done") =>
            /\ cmd.exc # "None" => InvocationsOf("pyserver_cve_scraper") # {}
            /\ "pyserver_cve_scraper" \in cmd.installed =>
                    InvocationsOf("pyserver_cve_scraper") # {}
    /\ \A app \in cmd.installed :
            HandleReached(app) =>
                /\ Cardinality(InvocationsOf(app)) = 1
                /\ \A i \in InvocationsOf(app) : cmd.invoked[i] = ExpectedArgv(app)

\* pyserver_users is absent: the command ends normally, having invoked only
\* create_cve_scraper_groups, with --force
C14_Witness ==
    /\ cmd.pc = "done"
    /\ cmd.installed = {"pyserver_cve_scraper"}
    /\ cmd.force = PyBool(TRUE)
    /\ cmd.exc = "None"
    /\ cmd.invoked = << <<"manage.py", "create_cve_scraper_groups", "--force", "True">> >>
    /\ cmd.stdout[1] = "No pyserver_users app found. Skipping group creation."

====
